---- MODULE Spec2Model ----
(***************************************************************************)
(* StudentHub backend: the signup / OTP-verification state machine of      *)
(* routes/auth.py (the in-memory otp_store, its deferred reaper and the    *)
(* users_v2 collection), the profile handlers of routes/auth.py and the   *)
(* posts handlers of routes/posts.py (likes, comments, deletion, listing). *)
(*                                                                         *)
(* Execution model.  `async def` handlers and background tasks run on the  *)
(* single event-loop thread and give it up only at an `await`; `def`       *)
(* handlers run in worker threads of the thread pool and interleave with   *)
(* each other and with the event loop at every access to shared state      *)
(* (otp_store, the shared draft dict, the database).                       *)
(*                                                                         *)
(* Time.  Every timestamp is kept relative to the current instant: a       *)
(* record's "expiry" field holds expiry - utcnow(), a sleeping reaper's    *)
(* "sleep" field the time until asyncio.sleep returns.  Tick advances the  *)
(* clock by one unit.  Only the sign of expiry - utcnow() is ever read, so *)
(* the field saturates at -1.                                              *)
(***************************************************************************)
EXTENDS Integers, Sequences, FiniteSets, TLC

\* ------------------------------------------------------------- bounds
\* OTP_EXPIRY_SECONDS of auth.py:29 is 300; the model scales it to clock units.
OTP_EXPIRY_SECONDS == 2
\* Signups that are accepted in one run (registration instances ever created).
MaxRegs == 2
\* Posts that are created in one run.
MaxPosts == 1
\* Worker threads of the pool that serve verify_email concurrently.
NThreads == 2
\* Comments that are pushed to one post in one run.
MaxComments == 2

Emails == {"a@x.com"}
\* The emails of the runs that exercise the profile handlers, which need two
\* accounts.
Accounts == Emails \cup {"b@x.com"}
\* The name and bio signup requests carry, and the values update_profile
\* requests carry; "None" is Python's None (field not supplied).
Names == {"n0"}
NewNames == {"None", "n1"}
NewBios == {"None", "b1"}
\* The content type of the file of an update_profile request, if any.
ContentTypes == {"None", "image/png", "text/plain"}
\* The password signup requests carry; login also tries one that was never
\* signed up with.
Passwords == {"pw"}
Guesses == Passwords \cup {"guess"}
\* One-time codes: code c is the c-th code issued; 0 is a code never issued.
Otps == 0..MaxRegs
Salts == {"salt"}
Threads == 1..NThreads
\* The authenticated callers of the posts handlers: str(current_user["_id"]).
Callers == {"u1", "u2"}
\* The text of a comment (CommentBody.text).
Texts == {"hi"}
\* comment_index path parameters: negative, in range, past the end.
Indexes == (0 - 1)..MaxComments

NoRec == 0
NoId == <<>>

\* ------------------------------------------------------------- state
VARIABLES
    records,    \* the record dicts signup has created, by instance (heap)
    otp_store,  \* otp_store: email -> instance of the record stored, or NoRec
    users,      \* db.users_v2: the set of inserted documents
    sg,         \* the signup request the event loop is serving
    vt,         \* the verify_email request of each worker thread
    response,   \* the response the last step sent, if it sent one, with the
                \* history of its request
    posts,      \* db.posts: the documents ever inserted, by ObjectId
    ft,         \* the posts request of each worker thread
    reply,      \* the response the last step of a posts handler sent, if any
    ac,         \* the add_comment request the event loop is serving
    pf,         \* the update_profile request the event loop is serving
    rp          \* the remove_profile_pic request a worker thread is serving

auth == <<records, otp_store, users, sg, vt, response, pf, rp>>
feed == <<posts, ft, reply, ac>>
vars == <<records, otp_store, users, sg, vt, response, pf, rp, posts, ft, reply, ac>>

RegIds == 1..Len(records)

\* ------------------------------------------------------------- helpers
\* bcrypt.hashpw(password, salt): the digest embeds the salt.
Hashpw(pw, salt) == [salt |-> salt, digest |-> <<salt, pw>>]

\* bcrypt.checkpw(password, hashed): re-hash with the salt of `hashed`.
Checkpw(pw, hashed) == Hashpw(pw, hashed.salt) = hashed

\* utils.otp.generate_otp(): a fresh one-time code.  Codes are opaque and
\* only ever compared with the code of the record a request reads, so the
\* n-th call returns code n.
generate_otp == Len(records) + 1

\* db.users_v2.find_one({"email": email}): the matching documents (no index
\* makes email unique, so there may be several; find_one returns one of them).
find_one(email) == {u \in users : u.email = email}

\* jwt.encode({"sub": email, "exp": ...}): the claims of the token.
Token(email) == [sub |-> email, exp_days |-> 7]

\* An update_profile request: position, the document get_current_user
\* returned (the handlers read its _id only; the email names the caller in
\* the response), the form fields, the update_data built so far, and history:
\* an upload request was sent, update_one was sent.
IdleProfile ==
    [pc |-> "idle", current_user |-> <<>>, name |-> "None", bio |-> "None",
     file |-> "None", update_data |-> <<>>, uploaded |-> FALSE, wrote |-> FALSE]

IdleRemove == [pc |-> "idle", current_user |-> <<>>]

IdleSignup == [pc |-> "idle", email |-> "", password |-> "", atIssue |-> FALSE]

IdleVerify == [pc |-> "idle", email |-> "", otp |-> 0, record |-> NoRec]

\* A response: the handler, its request (email and otp or password), the
\* outcome, and the history of the request the properties speak about.
\*   record    the record instance the request read or created
\*   inserted  the request inserted a document into users_v2
\*   after     verify_email answered at once (404, invalid code) and began
\*             after a verify_email for its email had returned success
\*   atIssue   signup: the email was registered or pending when it began
\*   atCheck   signup: the email was registered or pending at its table test
\*   pending   the email has an entry in otp_store as the response is sent
\*   user      login and the profile handlers: the user object returned
\*   request   the profile handlers: the request as the handler left it
NoResponse ==
    [op |-> "none", email |-> "", otp |-> 0, password |-> "", res |-> "none",
     record |-> NoRec,
     inserted |-> FALSE, after |-> FALSE, atIssue |-> FALSE,
     atCheck |-> FALSE, pending |-> FALSE, token |-> Token(""),
     user |-> <<>>, request |-> <<>>]

\* A worker thread's posts request: handler position, path parameters,
\* caller, and the comments list delete_comment read (posts.py:148).
IdleFeed == [pc |-> "idle", post_id |-> 0, user |-> "", index |-> 0,
             comments |-> <<>>]

IdleAdd == [pc |-> "idle", post_id |-> 0, user |-> "", text |-> "", n |-> 0]

\* A response of a posts handler: the handler, its post_id and caller, the
\* outcome, and the body where the properties speak about it.
\*   index    delete_comment: the comment_index of the request
\*   target   delete_comment: the comment it removed; add_comment: the one
\*            it pushed
\*   body     add_comment: the PostOut returned; get_posts: the list
NoReply == [op |-> "none", post_id |-> 0, user |-> "", res |-> "none",
            index |-> 0, target |-> <<>>, body |-> <<>>]

Init ==
    /\ records = <<>>
    /\ otp_store = [e \in Accounts |-> NoRec]
    /\ users = {}
    /\ sg = IdleSignup
    /\ vt = [t \in Threads |-> IdleVerify]
    /\ response = NoResponse
    /\ pf = IdleProfile
    /\ rp = IdleRemove
    /\ posts = <<>>
    /\ ft = [t \in Threads |-> IdleFeed]
    /\ reply = NoReply
    /\ ac = IdleAdd

\* ------------------------------------------------------------- signup
\* auth.py:66, left operand: db.users_v2.find_one({"email": user.email}).
EmailRegistered(email) == find_one(email) # {}

\* auth.py:66, right operand: user.email in otp_store.
EmailPending(email) == otp_store[email] # NoRec

\* auth.py:72-82: the record signup stores, with the draft user document.
\* "task" is the position of the request's background tasks (auth.py:89-90),
\* "ids" the number of ObjectIds generated for the draft dict; "reaped" and
\* "verified" are history: a reaper deleted this instance, a verify_email
\* that read this instance returned success.
NewRecord(email, password, otp, salt) ==
    [email |-> email,
     otp |-> otp,
     expiry |-> OTP_EXPIRY_SECONDS,
     user_data |-> [name |-> CHOOSE n \in Names : TRUE,
                    bio |-> "",
                    email |-> email,
                    passwordHash |-> Hashpw(password, salt),
                    profilePic |-> "None",
                    isVerified |-> FALSE,
                    id |-> NoId],
     task |-> "send_otp",
     sleep |-> 0,
     ids |-> 0,
     reaped |-> FALSE,
     verified |-> FALSE]

\* The response of signup (auth.py:67 and 92-95).
SignupResponse(res, rec, atCheck, pending) ==
    [NoResponse EXCEPT !.op = "signup", !.email = sg.email,
                       !.password = sg.password,
                       !.res = res, !.record = rec, !.atIssue = sg.atIssue,
                       !.atCheck = atCheck, !.pending = pending]

\* signup, first half (auth.py:65-66): the event loop thread blocks in
\* find_one; worker threads keep running meanwhile.  A found user ends the
\* request with 400 (the `or` short-circuits).
SignupFind(email, password) ==
    /\ sg.pc = "idle"
    /\ pf.pc = "idle"
    /\ Len(records) < MaxRegs
    /\ IF EmailRegistered(email)
       THEN /\ response' = [NoResponse EXCEPT
                              !.op = "signup", !.email = email, !.password = password,
                              !.res = "conflict", !.atIssue = TRUE, !.atCheck = TRUE,
                              !.pending = EmailPending(email)]
            /\ UNCHANGED sg
       ELSE /\ sg' = [pc |-> "l66", email |-> email, password |-> password,
                      atIssue |-> EmailPending(email)]
            /\ response' = NoResponse
    /\ UNCHANGED <<records, otp_store, users, vt>>
    /\ UNCHANGED <<pf, rp, feed>>

\* signup, second half (auth.py:66-95): the otp_store test, then, with no
\* await in between, the record is built and stored and the two background
\* tasks are queued behind the response.
SignupStore ==
    /\ sg.pc = "l66"
    /\ IF EmailPending(sg.email)
       THEN /\ response' = SignupResponse("conflict", NoRec, TRUE, TRUE)
            /\ UNCHANGED <<records, otp_store>>
       ELSE \E salt \in Salts :
            /\ records' = Append(records, NewRecord(sg.email, sg.password,
                                                    generate_otp, salt))
            /\ otp_store' = [otp_store EXCEPT ![sg.email] = Len(records) + 1]
            /\ response' = SignupResponse("ok", Len(records) + 1,
                                          EmailRegistered(sg.email), TRUE)
    /\ sg' = IdleSignup
    /\ UNCHANGED <<users, vt>>
    /\ UNCHANGED <<pf, rp, feed>>

\* ------------------------------------------------------------- background tasks
\* The tasks of one response run one after the other on the event loop
\* (auth.py:89-90): send_otp_task first, remove_otp_after_expiry only once
\* send_otp_task has returned.

\* send_otp_task returns (auth.py:84-87, mail.py:17-25): the reaper starts
\* and goes to sleep for OTP_EXPIRY_SECONDS (auth.py:58-59).
MailSent(r) ==
    /\ r \in RegIds
    /\ sg.pc = "idle"
    /\ pf.pc = "idle"
    /\ records[r].task = "send_otp"
    /\ records' = [records EXCEPT ![r].task = "sleep", ![r].sleep = OTP_EXPIRY_SECONDS]
    /\ response' = NoResponse
    /\ UNCHANGED <<otp_store, users, sg, vt>>
    /\ UNCHANGED <<pf, rp, feed>>

\* fm.send_message raises (mail.py:25): send_otp_task has no handler
\* (auth.py:84-87), the exception ends the response's background tasks and
\* the task queued behind it is never started.
MailFailed(r) ==
    /\ r \in RegIds
    /\ sg.pc = "idle"
    /\ pf.pc = "idle"
    /\ records[r].task = "send_otp"
    /\ records' = [records EXCEPT ![r].task = "aborted"]
    /\ response' = NoResponse
    /\ UNCHANGED <<otp_store, users, sg, vt>>
    /\ UNCHANGED <<pf, rp, feed>>

\* remove_otp_after_expiry after its sleep (auth.py:60-62): deletes whatever
\* record the key holds now.  The sleep began after signup computed the
\* record's expiry (auth.py:81 runs before 90), so it ends strictly later
\* than that expiry.  The membership test and the del leave the same table
\* whether or not a worker thread's del falls between them, so they are one
\* step.
ReaperWake(r) ==
    /\ r \in RegIds
    /\ sg.pc = "idle"
    /\ pf.pc = "idle"
    /\ records[r].task = "sleep"
    /\ records[r].sleep = 0
    /\ records[r].expiry < 0
    /\ LET email == records[r].email
           held == otp_store[email]
       IN  /\ otp_store' = [otp_store EXCEPT ![email] = NoRec]
           /\ records' = [i \in RegIds |->
                            [records[i] EXCEPT
                               !.task = IF i = r THEN "done" ELSE @,
                               !.reaped = IF i = held THEN TRUE ELSE @]]
    /\ response' = NoResponse
    /\ UNCHANGED <<users, sg, vt>>
    /\ UNCHANGED <<pf, rp, feed>>

\* One unit of time passes.
Tick ==
    /\ records' = [i \in RegIds |->
                     [records[i] EXCEPT
                        !.expiry = IF @ > -1 THEN @ - 1 ELSE @,
                        !.sleep = IF @ > 0 THEN @ - 1 ELSE @]]
    /\ response' = NoResponse
    /\ UNCHANGED <<otp_store, users, sg, vt>>
    /\ UNCHANGED <<pf, rp, feed>>

\* ------------------------------------------------------------- verify_email
\* A verify_email that never compares the codes.
OtpMismatch_Never(r, otp) == FALSE

\* auth.py:103: record["otp"] != data.otp.
OtpMismatch(r, otp) == records[r].otp # otp

\* auth.py:106: record["expiry"] < datetime.utcnow().
OtpExpired(r) == records[r].expiry < 0

\* History: a verify_email for `email` has returned success.
Verified(email) ==
    \E r \in RegIds : records[r].email = email /\ records[r].verified

\* The response of the verify_email of thread t (auth.py:101, 104, 108, 113,
\* or HTTP 500 for an exception the handler does not raise itself).
VerifyResponse(call, res, inserted, after, pending) ==
    [NoResponse EXCEPT !.op = "verify_email", !.email = call.email,
                       !.otp = call.otp, !.res = res, !.record = call.record,
                       !.inserted = inserted, !.after = after,
                       !.pending = pending]

\* A handler that drops the pending entry on a wrong code.
RaiseInvalidOtp_Consumes(call) ==
    /\ response' = VerifyResponse(call, "invalid_otp", FALSE, Verified(call.email), FALSE)
    /\ otp_store' = [otp_store EXCEPT ![call.email] = NoRec]
    /\ UNCHANGED vt

\* auth.py:103-104: 400 "Invalid OTP"; nothing is written.
RaiseInvalidOtp(call) ==
    /\ response' = VerifyResponse(call, "invalid_otp", FALSE, Verified(call.email), TRUE)
    /\ UNCHANGED <<vt, otp_store>>

\* verify_email up to its first raise (auth.py:99-104): reads the record the
\* key holds; 404 without one, 400 on a code that differs.  The record the
\* thread goes on with is the dict it read, whatever the key holds later.
\* (The pool gives the request to an idle worker; which one is immaterial,
\* so the lowest idle one takes it.)
VerifyStart(t, email, otp) ==
    /\ vt[t].pc = "idle"
    /\ \A u \in Threads : u < t => vt[u].pc # "idle"
    /\ LET r == otp_store[email]
           call == [IdleVerify EXCEPT !.email = email, !.otp = otp, !.record = r]
       IN  IF r = NoRec
           THEN /\ response' = VerifyResponse(call, "not_found", FALSE, Verified(email), FALSE)
                /\ UNCHANGED <<vt, otp_store>>
           ELSE IF OtpMismatch(r, otp)
           THEN RaiseInvalidOtp(call)
           ELSE /\ vt' = [vt EXCEPT ![t] = [call EXCEPT !.pc = "l106"]]
                /\ response' = NoResponse
                /\ UNCHANGED otp_store
    /\ UNCHANGED <<records, users, sg>>
    /\ UNCHANGED <<pf, rp, feed>>

\* auth.py:106: the clock is read and compared with the record's expiry.
VerifyExpiry(t) ==
    /\ vt[t].pc = "l106"
    /\ vt' = [vt EXCEPT ![t].pc = IF OtpExpired(vt[t].record) THEN "l107" ELSE "l110"]
    /\ response' = NoResponse
    /\ UNCHANGED <<records, otp_store, users, sg>>
    /\ UNCHANGED <<pf, rp, feed>>

\* del otp_store[data.email] (auth.py:107 and 111): removes whatever the key
\* holds and the handler returns `done`; KeyError (unhandled: HTTP 500) when
\* the key holds nothing.
DelOtp(t, done, inserted) ==
    /\ vt' = [vt EXCEPT ![t] = IdleVerify]
    /\ IF EmailPending(vt[t].email)
       THEN /\ otp_store' = [otp_store EXCEPT ![vt[t].email] = NoRec]
            /\ response' = VerifyResponse(vt[t], done, inserted, FALSE, FALSE)
       ELSE /\ response' = VerifyResponse(vt[t], "error", inserted, FALSE, FALSE)
            /\ UNCHANGED otp_store

\* auth.py:107-108: the expired record is deleted and 400 "OTP expired" raised.
VerifyDelExpired(t) ==
    /\ vt[t].pc = "l107"
    /\ DelOtp(t, "expired", FALSE)
    /\ UNCHANGED <<records, users, sg>>
    /\ UNCHANGED <<pf, rp, feed>>

\* insert_one(record["user_data"]) (auth.py:110), as the driver runs it on the
\* draft dict the threads share: test for "_id" ...
InsertTestId(t) ==
    /\ vt[t].pc = "l110"
    /\ vt' = [vt EXCEPT ![t].pc = IF records[vt[t].record].user_data.id # NoId
                                  THEN "l110_send" ELSE "l110_set"]
    /\ response' = NoResponse
    /\ UNCHANGED <<records, otp_store, users, sg>>
    /\ UNCHANGED <<pf, rp, feed>>

\* ... store a fresh ObjectId in the dict when the test found none ...
InsertSetId(t) ==
    /\ vt[t].pc = "l110_set"
    /\ records' = [records EXCEPT
                      ![vt[t].record].ids = @ + 1,
                      ![vt[t].record].user_data.id =
                          <<vt[t].record, records[vt[t].record].ids + 1>>]
    /\ vt' = [vt EXCEPT ![t].pc = "l110_send"]
    /\ response' = NoResponse
    /\ UNCHANGED <<otp_store, users, sg>>
    /\ UNCHANGED <<pf, rp, feed>>

\* The document users_v2 receives: the draft as the dict holds it now, with
\* the history of which record it came from and which code was presented.
Document(t) ==
    [name |-> records[vt[t].record].user_data.name,
     bio |-> records[vt[t].record].user_data.bio,
     email |-> records[vt[t].record].user_data.email,
     passwordHash |-> records[vt[t].record].user_data.passwordHash,
     profilePic |-> records[vt[t].record].user_data.profilePic,
     isVerified |-> records[vt[t].record].user_data.isVerified,
     id |-> records[vt[t].record].user_data.id,
     reg |-> vt[t].record,
     code |-> vt[t].otp]

\* ... and send the dict: the server stores it unless a document with that
\* _id exists (DuplicateKeyError, unhandled: HTTP 500, line 111 is not run).
InsertSend(t) ==
    /\ vt[t].pc = "l110_send"
    /\ IF \E u \in users : u.id = Document(t).id
       THEN /\ vt' = [vt EXCEPT ![t] = IdleVerify]
            /\ response' = VerifyResponse(vt[t], "error", FALSE, FALSE,
                                          EmailPending(vt[t].email))
            /\ UNCHANGED <<users, records>>
       ELSE /\ users' = users \cup {Document(t)}
            /\ UNCHANGED records
            /\ vt' = [vt EXCEPT ![t].pc = "l111"]
            /\ response' = NoResponse
    /\ UNCHANGED <<otp_store, sg>>
    /\ UNCHANGED <<pf, rp, feed>>

\* auth.py:111-113: the pending entry is deleted and success returned.
VerifyDel(t) ==
    /\ vt[t].pc = "l111"
    /\ DelOtp(t, "ok", TRUE)
    /\ records' = [records EXCEPT ![vt[t].record].verified =
                                     @ \/ EmailPending(vt[t].email)]
    /\ UNCHANGED <<users, sg>>
    /\ UNCHANGED <<pf, rp, feed>>

\* ------------------------------------------------------------- login
\* The user object of a response (auth.py:133-140, 147-153, 184-191).
UserOut(user_doc) ==
    [id |-> user_doc.id, name |-> user_doc.name, bio |-> user_doc.bio,
     email |-> user_doc.email, isVerified |-> user_doc.isVerified,
     profilePic |-> user_doc.profilePic]

\* login (auth.py:117-141): 401 without a user or on a digest mismatch, else
\* a token whose subject is the email of the document found.
Login(email, password) ==
    /\ IF ~EmailRegistered(email)
       THEN response' = [NoResponse EXCEPT !.op = "login", !.email = email,
                                           !.password = password,
                                           !.res = "unauthorized"]
       ELSE \E user_doc \in find_one(email) :
              response' =
                [NoResponse EXCEPT
                   !.op = "login", !.email = email, !.password = password,
                   !.record = user_doc.reg,
                   !.user = IF Checkpw(password, user_doc.passwordHash)
                            THEN UserOut(user_doc) ELSE <<>>,
                   !.res = IF Checkpw(password, user_doc.passwordHash)
                           THEN "ok" ELSE "unauthorized",
                   !.token = IF Checkpw(password, user_doc.passwordHash)
                             THEN Token(user_doc.email) ELSE Token("")]
    /\ UNCHANGED <<records, otp_store, users, sg, vt>>
    /\ UNCHANGED <<pf, rp, feed>>

\* ------------------------------------------------------------- profile
\* What the image host answers with: resp.json().get("secure_url") is the
\* URL, or None when the body has no such key (auth.py:176).
Urls == {"pic1", "None"}

\* An update that writes all three fields, supplied or not.
SetFields_Whole(user_doc, update_data) ==
    [user_doc EXCEPT !.name = update_data.name, !.bio = update_data.bio,
                     !.profilePic = update_data.profilePic]

\* An update that also marks the user verified.
SetFields_Verifies(user_doc, update_data) ==
    [user_doc EXCEPT !.isVerified = TRUE]

\* {"$set": update_data} applied to a document (auth.py:181, 195): the
\* fields update_data holds take its values ("Unset": key not in it).
SetFields(user_doc, update_data) ==
    [user_doc EXCEPT
       !.name = IF update_data.name # "Unset" THEN update_data.name ELSE @,
       !.bio = IF update_data.bio # "Unset" THEN update_data.bio ELSE @,
       !.profilePic = IF update_data.profilePic # "Unset"
                      THEN update_data.profilePic ELSE @]

\* db.users_v2.update_one({"_id": id}, {"$set": update_data}): one atomic
\* update of the document with that _id.
UpdateOne(id, update_data) ==
    users' = {IF u.id = id THEN SetFields(u, update_data) ELSE u : u \in users}

\* db.users_v2.find_one({"_id": id}).
FindById(id) == CHOOSE u \in users : u.id = id

\* current_user as the profile handlers use it.
Caller(user_doc) == [id |-> user_doc.id, email |-> user_doc.email]

ProfileResponse(op, email, res, user, request) ==
    [NoResponse EXCEPT !.op = op, !.email = email, !.res = res,
                       !.user = user, !.request = request]

\* update_profile up to the upload (auth.py:156-171): get_current_user finds
\* the caller by the token's email (401 without one); update_data takes the
\* name and bio that are supplied; a file that is not JPEG or PNG ends the
\* request with 400.
ProfileStart(email, name, bio, file) ==
    /\ pf.pc = "idle"
    /\ sg.pc = "idle"
    /\ IF ~EmailRegistered(email)
       THEN /\ response' = ProfileResponse("update_profile", email, "unauthorized",
                                           <<>>, <<>>)
            /\ UNCHANGED pf
       ELSE \E current_user \in find_one(email) :
              LET call == [IdleProfile EXCEPT
                             !.current_user = Caller(current_user),
                             !.name = name, !.bio = bio, !.file = file,
                             !.update_data =
                                 [name |-> IF name # "None" THEN name ELSE "Unset",
                                  bio |-> IF bio # "None" THEN bio ELSE "Unset",
                                  profilePic |-> "Unset"]]
              IN  IF file # "None" /\ file \notin {"image/jpeg", "image/png"}
                  THEN /\ response' = ProfileResponse("update_profile", email,
                                                      "bad_type", <<>>, call)
                       /\ UNCHANGED pf
                  ELSE /\ pf' = [call EXCEPT !.pc = IF file # "None" THEN "l174"
                                                    ELSE "l180"]
                       /\ response' = NoResponse
    /\ UNCHANGED <<records, otp_store, users, sg, vt, rp>>
    /\ UNCHANGED feed

\* auth.py:173-176: the upload succeeds and the URL of the answer goes into
\* update_data.
ProfileUploaded(url) ==
    /\ pf.pc = "l174"
    /\ pf' = [pf EXCEPT !.pc = "l180", !.uploaded = TRUE,
                        !.update_data.profilePic = url]
    /\ response' = NoResponse
    /\ UNCHANGED <<records, otp_store, users, sg, vt, rp>>
    /\ UNCHANGED feed

\* auth.py:177-178: requests.post or raise_for_status raises; 500.
ProfileUploadFailed ==
    /\ pf.pc = "l174"
    /\ response' = ProfileResponse("update_profile", pf.current_user.email,
                                   "upload_failed", <<>>,
                                   [pf EXCEPT !.uploaded = TRUE])
    /\ pf' = IdleProfile
    /\ UNCHANGED <<records, otp_store, users, sg, vt, rp>>
    /\ UNCHANGED feed

\* auth.py:180-181: update_one when update_data is not empty.
ProfileUpdate ==
    /\ pf.pc = "l180"
    /\ IF pf.update_data # [name |-> "Unset", bio |-> "Unset", profilePic |-> "Unset"]
       THEN /\ UpdateOne(pf.current_user.id, pf.update_data)
            /\ pf' = [pf EXCEPT !.pc = "l183", !.wrote = TRUE]
       ELSE /\ UNCHANGED users
            /\ pf' = [pf EXCEPT !.pc = "l183"]
    /\ response' = NoResponse
    /\ UNCHANGED <<records, otp_store, sg, vt, rp>>
    /\ UNCHANGED feed

\* auth.py:183-191: the document is read back and returned.
ProfileFind ==
    /\ pf.pc = "l183"
    /\ response' = ProfileResponse("update_profile", pf.current_user.email, "ok",
                                   UserOut(FindById(pf.current_user.id)), pf)
    /\ pf' = IdleProfile
    /\ UNCHANGED <<records, otp_store, users, sg, vt, rp>>
    /\ UNCHANGED feed

\* remove_profile_pic up to its update (auth.py:193-195), in a worker
\* thread: get_current_user, then $set profilePic to None.
RemoveUpdate(email) ==
    /\ rp.pc = "idle"
    /\ IF ~EmailRegistered(email)
       THEN /\ response' = ProfileResponse("remove_profile_pic", email,
                                           "unauthorized", <<>>, <<>>)
            /\ UNCHANGED <<rp, users>>
       ELSE \E current_user \in find_one(email) :
              /\ UpdateOne(current_user.id,
                           [name |-> "Unset", bio |-> "Unset", profilePic |-> "None"])
              /\ rp' = [pc |-> "l196", current_user |-> Caller(current_user)]
              /\ response' = NoResponse
    /\ UNCHANGED <<records, otp_store, sg, vt, pf>>
    /\ UNCHANGED feed

\* auth.py:196-204: the document is read back and returned.
RemoveFind ==
    /\ rp.pc = "l196"
    /\ response' = ProfileResponse("remove_profile_pic", rp.current_user.email, "ok",
                                   UserOut(FindById(rp.current_user.id)), rp)
    /\ rp' = IdleRemove
    /\ UNCHANGED <<records, otp_store, users, sg, vt, pf>>
    /\ UNCHANGED feed

\* ------------------------------------------------------------- posts
\* db.posts.find_one({"_id": ObjectId(post_id)}): the document is in the
\* collection.
PostFound(post_id) == post_id \in 1..Len(posts) /\ posts[post_id].live

\* post.get("likes", []), as a set, for the collection `coll`.
LikesIn(coll, post_id) ==
    {coll[post_id].likes[i] : i \in 1..Len(coll[post_id].likes)}

Likes(post_id) == LikesIn(posts, post_id)

\* An update that pushes without looking.
AddToSet_Push(array, x) == Append(array, x)

\* {"$addToSet": {"likes": x}}: appends x unless the array holds it.
AddToSet(array, x) ==
    IF \E i \in 1..Len(array) : array[i] = x THEN array ELSE Append(array, x)

\* {"$pull": {"likes": x}}: removes every occurrence of x.
RECURSIVE Pull(_, _)
Pull(array, x) ==
    IF array = <<>> THEN <<>>
    ELSE IF Head(array) = x THEN Pull(Tail(array), x)
         ELSE <<Head(array)>> \o Pull(Tail(array), x)

\* db.posts.update_one({"_id": ObjectId(post_id)}, ...) on the likes array:
\* one atomic update of the document; no document, no change.
UpdateLikes(post_id, array) ==
    posts' = IF PostFound(post_id)
             THEN [posts EXCEPT ![post_id].likes = array]
             ELSE posts

Reply(op, post_id, user, res) ==
    [NoReply EXCEPT !.op = op, !.post_id = post_id, !.user = user, !.res = res]

\* Comment(**c) (posts.py:107, 139): the comment as the response carries it.
\* "n" is history: the comment is the n-th one pushed to its post.
Comment(c) == [user_id |-> c.user_id, text |-> c.text, n |-> c.n]

\* PostOut(...) as add_comment and create_post build it (posts.py:81-90,
\* 131-140) and as the response model renders an entry of get_posts
\* (posts.py:92, 99-110): the likes field is not passed and takes the
\* model's default, the like_count key is not a field of PostOut.
PostOut(post_id, post) ==
    [id |-> post_id, user_id |-> post.user_id,
     comments |-> [i \in 1..Len(post.comments) |-> Comment(post.comments[i])],
     likes |-> <<>>]

\* An ownership test that lets every caller through.
NotAuthor_Never(post_id, user) == FALSE

\* posts.py:47: str(post["user_id"]) != str(current_user["_id"]).
NotAuthor(post_id, user) == posts[post_id].user_id # user

\* The pool gives a request to the lowest idle worker.
Takes(t) == ft[t].pc = "idle" /\ \A u \in Threads : u < t => ft[u].pc # "idle"

\* create_post without a file (posts.py:53-90): one insert_one; the document
\* has an empty comments array.  It has no likes field, which every reader
\* takes for [] (posts.py:26-27, 97) and $addToSet creates, so the field is
\* kept as the empty array.  The handler is `async def`: it runs when the
\* event loop is not inside add_comment.  "pushed" and "edited" are history:
\* the number of comments ever pushed to the post, and whether a
\* delete_comment has written its comments.
CreatePost(user) ==
    /\ Len(posts) < MaxPosts
    /\ ac.pc = "idle"
    /\ posts' = Append(posts, [user_id |-> user, comments |-> <<>>, likes |-> <<>>,
                               live |-> TRUE, pushed |-> 0, edited |-> FALSE])
    /\ reply' = [Reply("create_post", Len(posts) + 1, user, "ok") EXCEPT
                   !.body = PostOut(Len(posts) + 1, posts'[Len(posts) + 1])]
    /\ UNCHANGED <<ft, ac>>
    /\ UNCHANGED auth

\* like_post up to its update (posts.py:22-29): 404 without the post,
\* "Already liked" when the document read holds the caller.
LikeFind(t, post_id, user) ==
    /\ Takes(t)
    /\ IF ~PostFound(post_id)
       THEN reply' = Reply("like_post", post_id, user, "not_found") /\ UNCHANGED ft
       ELSE IF user \in Likes(post_id)
       THEN reply' = Reply("like_post", post_id, user, "already_liked") /\ UNCHANGED ft
       ELSE /\ ft' = [ft EXCEPT ![t] = [IdleFeed EXCEPT !.pc = "l30", !.post_id = post_id,
                                                     !.user = user]]
            /\ reply' = NoReply
    /\ UNCHANGED posts
    /\ UNCHANGED <<ac, auth>>

\* posts.py:30-31: the $addToSet update, then "Post liked".
LikeUpdate(t) ==
    /\ ft[t].pc = "l30"
    /\ UpdateLikes(ft[t].post_id, AddToSet(posts[ft[t].post_id].likes, ft[t].user))
    /\ reply' = Reply("like_post", ft[t].post_id, ft[t].user, "liked")
    /\ ft' = [ft EXCEPT ![t] = IdleFeed]
    /\ UNCHANGED <<ac, auth>>

\* unlike_post up to its update (posts.py:34-37).
UnlikeFind(t, post_id, user) ==
    /\ Takes(t)
    /\ IF ~PostFound(post_id)
       THEN reply' = Reply("unlike_post", post_id, user, "not_found") /\ UNCHANGED ft
       ELSE /\ ft' = [ft EXCEPT ![t] = [IdleFeed EXCEPT !.pc = "l38", !.post_id = post_id,
                                                     !.user = user]]
            /\ reply' = NoReply
    /\ UNCHANGED posts
    /\ UNCHANGED <<ac, auth>>

\* posts.py:38-39: the $pull update, then "Post unliked".
UnlikeUpdate(t) ==
    /\ ft[t].pc = "l38"
    /\ UpdateLikes(ft[t].post_id, Pull(posts[ft[t].post_id].likes, ft[t].user))
    /\ reply' = Reply("unlike_post", ft[t].post_id, ft[t].user, "unliked")
    /\ ft' = [ft EXCEPT ![t] = IdleFeed]
    /\ UNCHANGED <<ac, auth>>

\* delete_post up to its delete (posts.py:43-48): 404 without the post, 403
\* for a caller who is not its author.
DeleteFind(t, post_id, user) ==
    /\ Takes(t)
    /\ IF ~PostFound(post_id)
       THEN reply' = Reply("delete_post", post_id, user, "not_found") /\ UNCHANGED ft
       ELSE IF NotAuthor(post_id, user)
       THEN reply' = Reply("delete_post", post_id, user, "forbidden") /\ UNCHANGED ft
       ELSE /\ ft' = [ft EXCEPT ![t] = [IdleFeed EXCEPT !.pc = "l49", !.post_id = post_id,
                                                     !.user = user]]
            /\ reply' = NoReply
    /\ UNCHANGED posts
    /\ UNCHANGED <<ac, auth>>

\* posts.py:49-50: delete_one, then success.
DeleteOne(t) ==
    /\ ft[t].pc = "l49"
    /\ posts' = [posts EXCEPT ![ft[t].post_id].live = FALSE]
    /\ reply' = Reply("delete_post", ft[t].post_id, ft[t].user, "deleted")
    /\ ft' = [ft EXCEPT ![t] = IdleFeed]
    /\ UNCHANGED <<ac, auth>>

\* ------------------------------------------------------------- comments
\* A push that puts the new element first.
Push_Front(array, x) == <<x>> \o array

\* {"$push": {"comments": x}}: appends x to the array.
Push(array, x) == Append(array, x)

\* A pop that takes the last element whatever the index.
Pop_Last(array, index) == SubSeq(array, 1, Len(array) - 1)

\* comments.pop(comment_index) (posts.py:154) for 0 <= index < len: the list
\* without its element at the 0-based index.
Pop(array, index) == SubSeq(array, 1, index) \o SubSeq(array, index + 2, Len(array))

\* add_comment, first half (posts.py:124-129): the comment is built and one
\* $push update is sent; without the post the update matches nothing and the
\* handler goes on all the same.  The event loop thread blocks in
\* update_one; worker threads keep running until find_one is sent.
AddCommentPush(post_id, user, text) ==
    /\ ac.pc = "idle"
    /\ PostFound(post_id) => posts[post_id].pushed < MaxComments
    /\ LET n == IF PostFound(post_id) THEN posts[post_id].pushed + 1 ELSE 0
           comment == [user_id |-> user, text |-> text, n |-> n]
       IN  /\ posts' = IF PostFound(post_id)
                        THEN [posts EXCEPT
                                ![post_id].comments = Push(@, comment),
                                ![post_id].pushed = n]
                        ELSE posts
           /\ ac' = [pc |-> "l130", post_id |-> post_id, user |-> user,
                     text |-> text, n |-> n]
    /\ reply' = NoReply
    /\ UNCHANGED ft
    /\ UNCHANGED auth

\* add_comment, second half (posts.py:130-140): the post is read back and
\* returned; when find_one returns None, post["_id"] raises TypeError, which
\* no handler catches (HTTP 500, not an HTTPException).
AddCommentFind ==
    /\ ac.pc = "l130"
    /\ reply' = [Reply("add_comment", ac.post_id, ac.user,
                       IF PostFound(ac.post_id) THEN "ok" ELSE "error") EXCEPT
                   !.target = [user_id |-> ac.user, text |-> ac.text, n |-> ac.n],
                   !.body = IF PostFound(ac.post_id)
                            THEN PostOut(ac.post_id, posts[ac.post_id]) ELSE <<>>]
    /\ ac' = IdleAdd
    /\ UNCHANGED <<posts, ft>>
    /\ UNCHANGED auth

\* delete_comment up to its update (posts.py:144-154): 404 without the post
\* or for an index outside the list read, 403 when the comment at the index
\* is not the caller's; else the thread holds the list it read.
DeleteCommentFind(t, post_id, comment_index, user) ==
    /\ Takes(t)
    /\ LET comments == posts[post_id].comments
           out(res) == [Reply("delete_comment", post_id, user, res) EXCEPT
                          !.index = comment_index]
       IN  IF ~PostFound(post_id)
           THEN reply' = out("not_found") /\ UNCHANGED ft
           ELSE IF comment_index < 0 \/ comment_index >= Len(comments)
           THEN reply' = out("not_found") /\ UNCHANGED ft
           ELSE IF comments[comment_index + 1].user_id # user
           THEN reply' = out("forbidden") /\ UNCHANGED ft
           ELSE /\ ft' = [ft EXCEPT ![t] =
                            [pc |-> "l155", post_id |-> post_id, user |-> user,
                             index |-> comment_index, comments |-> comments]]
                /\ reply' = NoReply
    /\ UNCHANGED <<posts, ac>>
    /\ UNCHANGED auth

\* posts.py:154-156: the list read, without the element at the index, is
\* written over the post's comments with one $set update (no document, no
\* change), then success.
DeleteCommentSet(t) ==
    /\ ft[t].pc = "l155"
    /\ posts' = IF PostFound(ft[t].post_id)
                 THEN [posts EXCEPT
                         ![ft[t].post_id].comments = Pop(ft[t].comments, ft[t].index),
                         ![ft[t].post_id].edited = TRUE]
                 ELSE posts
    /\ reply' = [Reply("delete_comment", ft[t].post_id, ft[t].user, "deleted") EXCEPT
                   !.index = ft[t].index,
                   !.target = ft[t].comments[ft[t].index + 1]]
    /\ ft' = [ft EXCEPT ![t] = IdleFeed]
    /\ UNCHANGED ac
    /\ UNCHANGED auth

\* list(db.posts.find().sort("created_at", -1)) rendered (posts.py:94-111):
\* the documents in the collection among the first k inserted, newest first.
RECURSIVE Listing(_)
Listing(k) ==
    IF k = 0 THEN <<>>
    ELSE (IF posts[k].live THEN <<PostOut(k, posts[k])>> ELSE <<>>) \o Listing(k - 1)

\* get_posts (posts.py:93-111), served by a worker thread in one read.
GetPosts(t) ==
    /\ Takes(t)
    /\ reply' = [Reply("get_posts", 0, "", "ok") EXCEPT !.body = Listing(Len(posts))]
    /\ UNCHANGED <<posts, ft, ac>>
    /\ UNCHANGED auth

\* ------------------------------------------------------------- specification
Next ==
    \/ \E e \in Emails, p \in Passwords : SignupFind(e, p)
    \/ SignupStore
    \/ \E r \in 1..MaxRegs : MailSent(r)
    \/ \E r \in 1..MaxRegs : MailFailed(r)
    \/ \E r \in 1..MaxRegs : ReaperWake(r)
    \/ Tick
    \/ \E t \in Threads, e \in Emails, o \in Otps : VerifyStart(t, e, o)
    \/ \E t \in Threads : VerifyExpiry(t)
    \/ \E t \in Threads : VerifyDelExpired(t)
    \/ \E t \in Threads : InsertTestId(t)
    \/ \E t \in Threads : InsertSetId(t)
    \/ \E t \in Threads : InsertSend(t)
    \/ \E t \in Threads : VerifyDel(t)
    \/ \E e \in Emails, p \in Guesses : Login(e, p)

Spec == Init /\ [][Next]_vars

\* What the scheduling guarantees: the clock advances; the event loop finishes
\* the handler it is running and resumes a background task whose await has
\* completed (the mail exchange ends, one way or the other; the sleep ends);
\* a worker thread that is inside verify_email goes on to its next step.
\* Requests are not guaranteed to arrive.
Fairness ==
    /\ WF_vars(Tick)
    /\ WF_vars(SignupStore)
    /\ \A r \in 1..MaxRegs : WF_vars(MailSent(r) \/ MailFailed(r))
    /\ \A r \in 1..MaxRegs : WF_vars(ReaperWake(r))
    /\ \A t \in Threads :
          WF_vars(VerifyExpiry(t) \/ VerifyDelExpired(t) \/ InsertTestId(t)
                  \/ InsertSetId(t) \/ InsertSend(t) \/ VerifyDel(t))

FairSpec == Init /\ [][Next]_vars /\ Fairness

\* The account handlers of routes/auth.py with the profile handlers, for two
\* emails, while no pending registration expires and the mails are still
\* going out: signup, verify_email (one request at a time), login,
\* update_profile on the event loop and remove_profile_pic in a worker
\* thread.
ProfileNext ==
    \/ \E e \in Accounts, p \in Passwords : SignupFind(e, p)
    \/ SignupStore
    \/ \E e \in Accounts, o \in Otps : VerifyStart(1, e, o)
    \/ VerifyExpiry(1)
    \/ InsertTestId(1)
    \/ InsertSetId(1)
    \/ InsertSend(1)
    \/ VerifyDel(1)
    \/ \E e \in Accounts, p \in Passwords : Login(e, p)
    \/ \E e \in Accounts, n \in NewNames, b \in NewBios, f \in ContentTypes :
          ProfileStart(e, n, b, f)
    \/ \E url \in Urls : ProfileUploaded(url)
    \/ ProfileUploadFailed
    \/ ProfileUpdate
    \/ ProfileFind
    \/ \E e \in Accounts : RemoveUpdate(e)
    \/ RemoveFind

ProfileSpec == Init /\ [][ProfileNext]_vars

\* The posts handlers (routes/posts.py) on their own: they share no state
\* with the signup machine.
FeedNext ==
    \/ \E u \in Callers : CreatePost(u)
    \/ \E t \in Threads, p \in 1..MaxPosts, u \in Callers : LikeFind(t, p, u)
    \/ \E t \in Threads : LikeUpdate(t)
    \/ \E t \in Threads, p \in 1..MaxPosts, u \in Callers : UnlikeFind(t, p, u)
    \/ \E t \in Threads : UnlikeUpdate(t)
    \/ \E t \in Threads, p \in 1..MaxPosts, u \in Callers : DeleteFind(t, p, u)
    \/ \E t \in Threads : DeleteOne(t)
    \/ \E p \in 1..MaxPosts, u \in Callers, x \in Texts : AddCommentPush(p, u, x)
    \/ AddCommentFind
    \/ \E t \in Threads, p \in 1..MaxPosts, i \in Indexes, u \in Callers :
          DeleteCommentFind(t, p, i, u)
    \/ \E t \in Threads : DeleteCommentSet(t)
    \/ \E t \in Threads : GetPosts(t)

FeedSpec == Init /\ [][FeedNext]_vars

\* ------------------------------------------------------------- claims

\* C1: a signup for an email that is registered or pending when the request
\* begins, and still registered or pending when the request tests otp_store,
\* is answered 400 Conflict (and so stores nothing).
C1_SignupConflict ==
    (response.op = "signup" /\ response.atIssue /\ response.atCheck)
        => response.res = "conflict"

\* C2 (its second half): once a verify_email for an email has returned
\* success, every later verify_email for that email is answered 404: it is
\* not answered otherwise at line 101/104, and it does not get past them.
C2_VerifyOnce ==
    /\ []((response.op = "verify_email" /\ response.after)
            => response.res = "not_found")
    /\ [][\A t \in Threads :
            (vt[t].pc = "idle" /\ vt'[t].pc = "l106") => ~Verified(vt'[t].email)]_vars

\* Documents inserted from the draft of record r.
Inserted(r) == {u \in users : u.reg = r}

\* Record r is the entry otp_store holds for its email.
Stored(r) == r \in RegIds /\ otp_store[records[r].email] = r

\* C3: a record the reaper removed is never also committed as a user, and a
\* verify_email that inserted the user is answered with success.
C3_OneWinner ==
    /\ \A r \in RegIds : records[r].reaped => Inserted(r) = {}
    /\ (response.op = "verify_email" /\ response.inserted
          /\ records[response.record].reaped) => response.res = "ok"

\* C4: the store holds at most one committed user per email.
C4_OneUserPerEmail == \A e \in Emails : Cardinality(find_one(e)) <= 1

\* C5: no email has both an entry in otp_store and a committed user.
C5_PendingXorCommitted == \A e \in Emails : ~(EmailPending(e) /\ EmailRegistered(e))

\* C6: a verify_email with the correct code that reads the clock at or after
\* the record's expiry (utcnow() >= expiry) takes the Expired path (line 107)
\* and does not go on to insert_one (line 110).
C6_ExpiredAtOrAfter ==
    [][\A t \in Threads :
         (vt[t].pc = "l106" /\ vt'[t].pc # "l106"
            /\ records[vt[t].record].expiry <= 0) => vt'[t].pc = "l107"]_vars

\* C7: every pending registration a signup stored is eventually removed from
\* otp_store, whether the OTP mail was delivered or not.
C7_EventuallyDestroyed == \A r \in 1..MaxRegs : Stored(r) ~> ~Stored(r)

\* C8: every committed user was inserted by a verify_email that presented the
\* code stored in the pending registration whose draft it is; no step of
\* signup changes the user store; and a login that is answered with a token
\* found a committed user (so login for an email that has only signed up is
\* answered 401).
C8_UsersOnlyByVerification ==
    /\ [](\A u \in users :
            /\ u.reg \in RegIds
            /\ u.code = records[u.reg].otp
            /\ u.email = records[u.reg].email)
    /\ []((response.op = "login" /\ response.res = "ok")
            => \E r \in RegIds : records[r].email = response.email /\ Inserted(r) # {})
    /\ [][sg' # sg => users' = users]_vars

\* C8's case: a login for an email that has signed up and not verified.
C8_Witness ==
    /\ response.op = "login" /\ response.res = "unauthorized"
    /\ EmailPending(response.email)
    /\ response.password \in Passwords

C10_LikesIdempotent ==
    /\ [](\A p \in 1..Len(posts) :
            Cardinality(Likes(p)) = Len(posts[p].likes))
    /\ [][(reply'.op = "like_post" /\ reply'.res # "not_found")
            => /\ reply'.res \in {"already_liked", "liked"}
               /\ Len(posts') = Len(posts)
               /\ posts'[reply'.post_id].live =>
                    /\ LikesIn(posts', reply'.post_id)
                         = Likes(reply'.post_id) \cup {reply'.user}
                    /\ reply'.user \in Likes(reply'.post_id)
                         => posts'[reply'.post_id] = posts[reply'.post_id]]_vars
    /\ [][(reply'.op = "unlike_post" /\ reply'.res # "not_found")
            => /\ reply'.res = "unliked"
               /\ posts'[reply'.post_id].live =>
                    /\ LikesIn(posts', reply'.post_id)
                         = Likes(reply'.post_id) \ {reply'.user}
                    /\ reply'.user \notin Likes(reply'.post_id)
                         => posts'[reply'.post_id] = posts[reply'.post_id]]_vars

\* C10's case: a like by a caller who already likes the post, while another
\* request is under way.
C10_Witness ==
    /\ reply.op = "like_post" /\ reply.res = "already_liked"
    /\ \E t \in Threads : ft[t].pc # "idle"

\* post.get("comments", []), as a set, for the collection `coll`.
CommentsIn(coll, post_id) ==
    {coll[post_id].comments[i] : i \in 1..Len(coll[post_id].comments)}

\* C11: under every interleaving of add_comment and delete_comment, a
\* comment leaves the comments of a post that stays in the store only in the
\* step of a delete_comment by the comment's author that targeted it, and a
\* comment enters them only as a newly pushed one (no deleted comment comes
\* back).
C11_AuthorOnlyRemoval ==
    [][\A p \in 1..Len(posts) :
         posts'[p].live =>
           /\ \A c \in CommentsIn(posts, p) \ CommentsIn(posts', p) :
                 /\ reply'.op = "delete_comment" /\ reply'.res = "deleted"
                 /\ reply'.post_id = p
                 /\ reply'.user = c.user_id
                 /\ reply'.target = c
           /\ \A c \in CommentsIn(posts', p) \ CommentsIn(posts, p) :
                 c.n > posts[p].pushed]_vars

\* The comment_index is outside the comments of the post.
OutOfRange(post_id, comment_index) ==
    comment_index < 0 \/ comment_index > Len(posts[post_id].comments) - 1

C13_DeleteByAuthorOnly ==
    /\ [][\A p \in 1..Len(posts) :
            /\ (posts[p].live /\ ~posts'[p].live)
                  => /\ reply'.op = "delete_post" /\ reply'.res = "deleted"
                     /\ reply'.post_id = p
                     /\ reply'.user = posts[p].user_id
            /\ ~posts[p].live => ~posts'[p].live]_vars
    /\ [][(reply'.op = "delete_post" /\ PostFound(reply'.post_id))
            => /\ reply'.res = "forbidden"
                    <=> reply'.user # posts[reply'.post_id].user_id
               /\ reply'.res = "forbidden" => posts' = posts
               /\ reply'.res # "forbidden"
                    => (reply'.res = "deleted" /\ ~posts'[reply'.post_id].live)]_vars
    /\ [][\A t \in Threads :
            (ft[t].pc = "idle" /\ ft'[t].pc = "l49")
              => ft'[t].user = posts[ft'[t].post_id].user_id]_vars
    /\ [](reply.op = "get_posts"
            => {reply.body[i].id : i \in 1..Len(reply.body)}
                  = {p \in 1..Len(posts) : posts[p].live})

\* C13's case: a listing after the author deleted the post.
C13_Witness ==
    /\ reply.op = "get_posts" /\ reply.body = <<>>
    /\ Len(posts) > 0 /\ ~posts[1].live

\* C14: like_post, unlike_post, delete_post and delete_comment that find no
\* post under the id are answered 404 and write nothing, and only requests
\* that found the post go on; an add_comment whose post was not in the store
\* is answered 404 as well, and no posts handler ends in an unhandled
\* exception.
C14_NotFoundStructured ==
    /\ [][(reply'.op \in {"like_post", "unlike_post", "delete_post", "delete_comment"}
              /\ ft' = ft /\ ~PostFound(reply'.post_id))
            => (reply'.res = "not_found" /\ posts' = posts)]_vars
    /\ [][\A t \in Threads :
            (ft[t].pc = "idle" /\ ft'[t].pc # "idle") => PostFound(ft'[t].post_id)]_vars
    /\ [][(ac.pc = "l130" /\ ac.n = 0 /\ ac'.pc = "idle")
            => (reply'.res = "not_found" /\ posts' = posts)]_vars
    /\ [][(ac.pc = "idle" /\ ac'.pc = "l130" /\ ~PostFound(ac'.post_id))
            => posts' = posts]_vars
    /\ [](reply.res # "error")

\* C15: create_post answers with no comments and no likes, and a listing
\* shows every post in the store with the comments it holds (none, and no
\* likes, for a post nothing was added to); a $push appends the comment with
\* the submitted text and the caller as author; while no delete_comment has
\* written a post's comments they are the comments pushed, in the order of
\* the pushes, and add_comment answers with the post whose last comment is
\* the new one.
C15_FeedRoundTrip ==
    /\ [](reply.op = "create_post"
            => (reply.body.comments = <<>> /\ reply.body.likes = <<>>))
    /\ [](reply.op = "get_posts"
            => \A p \in 1..Len(posts) :
                 posts[p].live
                   => \E i \in 1..Len(reply.body) :
                        /\ reply.body[i].id = p
                        /\ reply.body[i].comments = posts[p].comments
                        /\ posts[p].likes = <<>> => reply.body[i].likes = <<>>)
    /\ [][(ac.pc = "idle" /\ ac'.pc = "l130" /\ PostFound(ac'.post_id))
            => posts'[ac'.post_id].comments
                 = posts[ac'.post_id].comments
                     \o <<[user_id |-> ac'.user, text |-> ac'.text,
                           n |-> posts[ac'.post_id].pushed + 1]>>]_vars
    /\ [](\A p \in 1..Len(posts) :
            (posts[p].live /\ ~posts[p].edited)
              => /\ Len(posts[p].comments) = posts[p].pushed
                 /\ \A i \in 1..Len(posts[p].comments) : posts[p].comments[i].n = i)
    /\ []((reply.op = "add_comment" /\ reply.res = "ok"
              /\ ~posts[reply.post_id].edited)
            => /\ reply.body.comments = posts[reply.post_id].comments
               /\ reply.body.comments # <<>>
               /\ reply.body.comments[Len(reply.body.comments)] = reply.target)

\* C15's case: the second add_comment on a post returns both comments.
C15_Witness ==
    /\ reply.op = "add_comment" /\ reply.res = "ok"
    /\ ~posts[reply.post_id].edited
    /\ Len(reply.body.comments) = 2

\* C16: a registration instance is removed by a reaper only if that reaper
\* is the one its own signup scheduled: the reaper of an earlier signup does
\* not delete the record a later signup stored under the same email.
C16_OwnReaperOnly ==
    \A r \in RegIds : records[r].reaped => records[r].task = "done"

\* The sleep of record r's reaper is over: it is the next thing the event
\* loop runs for r.
ReaperDue(r) == records[r].task = "sleep" /\ records[r].sleep = 0

\* C17: the removal is due OTP_EXPIRY_SECONDS after the signup however long
\* the mail takes: whenever a stored record's expiry has passed, the sleep of
\* its reaper is over (it was not started late, behind the mail), and no
\* signup is answered 400 on account of an expired entry whose reaper is not
\* yet due.
C17_ReaperAtExpiry ==
    /\ [](\A r \in RegIds :
            (Stored(r) /\ records[r].expiry < 0) => ReaperDue(r))
    /\ [][(response'.op = "signup" /\ response'.res = "conflict"
              /\ ~EmailRegistered(response'.email))
            => LET r == otp_store[response'.email]
               IN  records[r].expiry < 0 => ReaperDue(r)]_vars

\* C18: the update_one of update_profile changes, in the caller's document,
\* exactly the fields the request supplied (name, bio, and the picture when a
\* file came with it) and nothing else, and leaves every other document as
\* it was; no other step of an update_profile writes the user store; a
\* request answered 400 (content type) or 500 (upload) has written nothing,
\* and one answered 400 has sent no upload; a request with a file that is
\* neither JPEG nor PNG is not answered with success.
C18_PartialUpdate ==
    /\ [][(pf.pc = "l180" /\ pf'.pc = "l183")
            => /\ Cardinality(users') = Cardinality(users)
               /\ \A u \in users :
                     IF u.id # pf.current_user.id
                     THEN u \in users'
                     ELSE \E v \in users' :
                            /\ v.id = u.id
                            /\ v.email = u.email
                            /\ v.passwordHash = u.passwordHash
                            /\ v.isVerified = u.isVerified
                            /\ v.name = IF pf.name # "None" THEN pf.name ELSE u.name
                            /\ v.bio = IF pf.bio # "None" THEN pf.bio ELSE u.bio
                            /\ v.profilePic = IF pf.file # "None"
                                              THEN pf.update_data.profilePic
                                              ELSE u.profilePic]_vars
    /\ [][((pf' # pf \/ response'.op = "update_profile") /\ pf.pc # "l180")
            => users' = users]_vars
    /\ []((response.op = "update_profile"
              /\ response.res \in {"bad_type", "upload_failed"})
            => /\ ~response.request.wrote
               /\ response.res = "bad_type" => ~response.request.uploaded)
    /\ []((response.op = "update_profile" /\ response.res = "ok")
            => response.request.file \in {"None", "image/jpeg", "image/png"})
    /\ [][(response'.op = "update_profile"
              /\ response'.res \in {"bad_type", "upload_failed"})
            => (response'.request.file # "None"
                /\ (response'.res = "bad_type"
                       <=> response'.request.file \notin {"image/jpeg", "image/png"}))]_vars

\* C18's case: an update_profile that supplied a name and a picture and no
\* bio succeeded while the store holds a second user.
C18_Witness ==
    /\ response.op = "update_profile" /\ response.res = "ok"
    /\ response.request.name = "n1" /\ response.request.bio = "None"
    /\ response.request.file = "image/png"
    /\ response.user.name = "n1" /\ response.user.bio = ""
    /\ Cardinality(users) = 2

\* C19: the draft of every record and every committed user has
\* isVerified = False, and login, update_profile and remove_profile_pic
\* report False for the user they return.
C19_NeverVerified ==
    /\ [](\A r \in RegIds : records[r].user_data.isVerified = FALSE)
    /\ [](\A u \in users : u.isVerified = FALSE)
    /\ []((response.op \in {"login", "update_profile", "remove_profile_pic"}
              /\ response.res = "ok")
            => response.user.isVerified = FALSE)

\* C19's case: a login, after the email was verified and the profile
\* updated, reports isVerified = False.
C19_Witness ==
    /\ response.op = "login" /\ response.res = "ok"
    /\ records[response.record].verified
    /\ response.user.name = "n1"
    /\ response.user.isVerified = FALSE

====
